---- MODULE Spec2Model ----
(***************************************************************************)
(* Model of the FIA MCP server: the tool layer of src/src/main.py and the  *)
(* Axcelerate API client of src/src/services/axcelerate.py.                *)
(*                                                                         *)
(* One tool invocation is two steps: the tool action builds the client     *)
(* call and the outgoing request and issues it; HttpComplete is the point  *)
(* at which requests.get/post comes back (with a response or an exception) *)
(* and the rest of the client method runs to its return or raise.          *)
(***************************************************************************)
EXTENDS Integers, Sequences, FiniteSets, TLC

VARIABLES ax, pc, tool, toolArgs, call, request, httpCalls, response, result

vars == <<ax, pc, tool, toolArgs, call, request, httpCalls, response, result>>

(***************************************************************************)
(* Bounds of the model.                                                    *)
(***************************************************************************)
\* longest list the upstream returns
MaxRows == 2
\* ids range over -1 and 1..MaxId
MaxId == 1
\* most optional filters a caller provides in one call
MaxFilters == 1
\* invocations the server has in progress at once
MaxThreads == 2

Ids == {-1} \cup (1..MaxId)

(***************************************************************************)
(* Values.  A JSON value, and a Python argument, is a tagged record; None  *)
(* and null are the same value.  A float is kept in tenths (15 is 1.5).    *)
(***************************************************************************)
JNull == [t |-> "null", v |-> 0]
JInt(n) == [t |-> "int", v |-> n]
JFloat(tenths) == [t |-> "float", v |-> tenths]
JBool(b) == [t |-> "bool", v |-> b]
JStr(s) == [t |-> "str", v |-> s]
JList(s) == [t |-> "list", v |-> s]
JDict(d) == [t |-> "dict", v |-> d]
\* a response body that is not JSON at all
NotJson == [t |-> "invalid", v |-> 0]
PyDate(y, m, d) == [t |-> "date", v |-> <<y, m, d>>]
PyDateTime(y, m, d, h, mi) == [t |-> "datetime", v |-> <<y, m, d, h, mi>>]

EmptyDict == [k \in {} |-> JNull]

(***************************************************************************)
(* The outcome of a Python call: a returned value or a raised exception.   *)
(***************************************************************************)
Return(val) == [kind |-> "return", exc |-> "", value |-> val]
Raise(e) == [kind |-> "raise", exc |-> e, value |-> JNull]

\* dict.get(key) and dict.get(key, default)
Get(d, key) == IF key \in DOMAIN d THEN d[key] ELSE JNull
GetDefault(d, key, default) == IF key \in DOMAIN d THEN d[key] ELSE default

\* isinstance(x, dict), isinstance(x, list)
IsDict(x) == x.t = "dict"
IsList(x) == x.t = "list"

\* The characters of the strings the model uses, as iterating a str yields them.
Chars(s) ==
  CASE s = "" -> <<>>
    [] s = "1" -> <<"1">>
    [] s = "2" -> <<"2">>
    [] s = "3" -> <<"3">>
    [] s = "NA" -> <<"N", "A">>
    [] s = "Garbo" -> <<"G", "a", "r", "b", "o">>
    [] OTHER -> <<s>>

SetToSeq(S) ==
  LET RECURSIVE Build(_)
      Build(R) == IF R = {} THEN <<>>
                  ELSE LET k == CHOOSE k \in R : TRUE IN <<k>> \o Build(R \ {k})
  IN Build(S)

\* `for item in x`: the items a for loop visits, or the TypeError of a value
\* that is not iterable.  A dict yields its keys, a str its characters.
PyIter(x) ==
  CASE x.t = "list" -> Return(x.v)
    [] x.t = "dict" -> Return([i \in 1..Cardinality(DOMAIN x.v) |-> JStr(SetToSeq(DOMAIN x.v)[i])])
    [] x.t = "str" -> Return([i \in 1..Len(Chars(x.v)) |-> JStr(Chars(x.v)[i])])
    [] OTHER -> Raise("TypeError")

\* the decimal strings int() parses, for the ids of the model
DecimalOf(n) ==
  CASE n = -1 -> "-1"
    [] n = 1 -> "1"
    [] n = 2 -> "2"
    [] n = 3 -> "3"
    [] OTHER -> "?"

\* int(x): an int is itself, a float is truncated towards zero, a str is
\* parsed (ValueError when it is no decimal), anything else is a TypeError.
PyInt(x) ==
  CASE x.t = "int" -> Return(x.v)
    [] x.t = "bool" -> Return(IF x.v THEN 1 ELSE 0)
    [] x.t = "float" -> Return(IF x.v >= 0 THEN x.v \div 10 ELSE -((-x.v) \div 10))
    [] x.t = "str" -> IF \E n \in -1..3 : DecimalOf(n) = x.v
                      THEN Return(CHOOSE n \in -1..3 : DecimalOf(n) = x.v)
                      ELSE Raise("ValueError")
    [] OTHER -> Raise("TypeError")

(***************************************************************************)
(* The arguments a caller passes.  An optional parameter that is not given *)
(* is None; at most MaxFilters of a tool's optional parameters are given.  *)
(***************************************************************************)
StrVals == {JStr("Garbo")}
IntVals == {JInt(i) : i \in 1..MaxId}
BoolVals == {JBool(TRUE), JBool(FALSE)}
IdListVals == {JList(<<JInt(1)>>)}
TypeVals == {JStr("w"), JStr("p"), JStr("el")}
DateVals == {PyDate(2025, 1, 31)}
DateTimeVals == {PyDateTime(2025, 1, 31, 9, 5)}

AllNone(vals) == [p \in DOMAIN vals |-> JNull]

RECURSIVE ArgsUpTo(_, _)
ArgsUpTo(vals, k) ==
  IF k = 0 THEN {AllNone(vals)}
  ELSE LET prev == ArgsUpTo(vals, k - 1)
       IN prev \cup UNION { UNION { {[a EXCEPT ![p] = val] : val \in vals[p]}
                                    : p \in DOMAIN vals } : a \in prev }

\* main.py 28-36: the parameters of the search_user tool
SearchUserParams ==
  [q |-> StrVals, givenName |-> StrVals, surname |-> StrVals,
   emailAddress |-> StrVals, contactRoleID |-> IntVals,
   contactIDs |-> IdListVals, contactID |-> IntVals]

\* main.py 64-75: the parameters of the get_courses tool
GetCoursesParams ==
  [id |-> IntVals, search_term |-> StrVals, type |-> {JStr("p")},
   offset |-> IntVals, display_length |-> IntVals, sort_column |-> StrVals,
   sort_direction |-> StrVals, current |-> BoolVals, public |-> BoolVals,
   isActive |-> BoolVals]

\* main.py 142-166: the parameters of the search_cohorts tool
SearchCohortsParams ==
  [id |-> IntVals, instance_id |-> IntVals, type |-> {JStr("p")},
   training_category |-> StrVals, location |-> StrVals, state |-> StrVals,
   code |-> StrVals, name |-> StrVals, search_term |-> StrVals,
   enrolment_open |-> BoolVals,
   startDate_min |-> DateVals, startDate_max |-> DateVals,
   finishDate_min |-> DateVals, finishDate_max |-> DateVals,
   lastUpdated_min |-> DateTimeVals, lastUpdated_max |-> DateTimeVals,
   offset |-> IntVals, display_length |-> IntVals, sort_column |-> StrVals,
   sort_direction |-> StrVals, public |-> BoolVals, isActive |-> BoolVals,
   status |-> StrVals]

SearchUserArgs == ArgsUpTo(SearchUserParams, MaxFilters)
GetCoursesArgs == ArgsUpTo(GetCoursesParams, MaxFilters)
SearchCohortsArgs == ArgsUpTo(SearchCohortsParams, MaxFilters)
\* main.py 112: both parameters of get_cohorts are required
GetCohortsArgs == [course_id : IntVals, type : TypeVals]
\* main.py 226, 240: the single required id, any int
StudentArgs == [contactID : {JInt(i) : i \in Ids}]
CourseEnrolmentArgs == [instanceID : {JInt(i) : i \in Ids}]
NoArgs == EmptyDict
\* axcelerate.py 317: the one optional parameter of get_fia_courses
FiaArgs == [display_length : {JNull} \cup IntVals]

(***************************************************************************)
(* Tool layer (main.py): the client call each tool makes.                  *)
(***************************************************************************)
search_user_call(a) ==
  [method |-> "search_users",
   args |-> [q |-> a.q, givenName |-> a.givenName, surname |-> a.surname,
             emailAddress |-> a.emailAddress, contactRoleID |-> a.contactRoleID,
             contactIDs |-> a.contactIDs, contactID |-> a.contactID]]

get_courses_call(a) ==
  [method |-> "get_courses",
   args |-> [id |-> a.id, search_term |-> a.search_term, type |-> a.type,
             offset |-> a.offset, display_length |-> a.display_length,
             sort_column |-> a.sort_column, sort_direction |-> a.sort_direction,
             current |-> a.current, public |-> a.public, isActive |-> a.isActive]]

get_cohorts_call(a) ==
  [method |-> "get_course_instance",
   args |-> [course_id |-> a.course_id, type |-> a.type]]

get_recorded_webinars_call(a) ==
  [method |-> "get_recorded_webinars", args |-> NoArgs]

\* faulty variant: the tool forgets to pass status on
search_cohorts_call_NoStatus(a) ==
  [method |-> "search_courses",
   args |-> [id |-> a.id, instance_id |-> a.instance_id, type |-> a.type,
             training_category |-> a.training_category, location |-> a.location,
             state |-> a.state, code |-> a.code, name |-> a.name,
             search_term |-> a.search_term, enrolment_open |-> a.enrolment_open,
             startDate_min |-> a.startDate_min, startDate_max |-> a.startDate_max,
             finishDate_min |-> a.finishDate_min, finishDate_max |-> a.finishDate_max,
             lastUpdated_min |-> a.lastUpdated_min, lastUpdated_max |-> a.lastUpdated_max,
             offset |-> a.offset, display_length |-> a.display_length,
             sort_column |-> a.sort_column, sort_direction |-> a.sort_direction,
             public |-> a.public, isActive |-> a.isActive, status |-> JNull]]

search_cohorts_call(a) ==
  [method |-> "search_courses",
   args |-> [id |-> a.id, instance_id |-> a.instance_id, type |-> a.type,
             training_category |-> a.training_category, location |-> a.location,
             state |-> a.state, code |-> a.code, name |-> a.name,
             search_term |-> a.search_term, enrolment_open |-> a.enrolment_open,
             startDate_min |-> a.startDate_min, startDate_max |-> a.startDate_max,
             finishDate_min |-> a.finishDate_min, finishDate_max |-> a.finishDate_max,
             lastUpdated_min |-> a.lastUpdated_min, lastUpdated_max |-> a.lastUpdated_max,
             offset |-> a.offset, display_length |-> a.display_length,
             sort_column |-> a.sort_column, sort_direction |-> a.sort_direction,
             public |-> a.public, isActive |-> a.isActive, status |-> a.status]]

get_student_enrollments_call(a) ==
  [method |-> "get_student_enrollments", args |-> [contactID |-> a.contactID]]

get_course_enrolments_call(a) ==
  [method |-> "get_course_enrolments", args |-> [instanceID |-> a.instanceID]]

\* axcelerate.py 221-246: every parameter of search_courses defaults to None
search_courses_defaults == AllNone(SearchCohortsParams)

\* faulty variant: the page size is not passed on
get_fia_courses_call_NoLength(a) ==
  [method |-> "search_courses",
   args |-> [search_courses_defaults EXCEPT
               !.type = JStr("p"), !.training_category = JStr("FIA Courses")]]

\* axcelerate.py 326-330: the call get_fia_courses makes on the same client
get_fia_courses_call(a) ==
  [method |-> "search_courses",
   args |-> [search_courses_defaults EXCEPT
               !.type = JStr("p"), !.training_category = JStr("FIA Courses"),
               !.display_length = a.display_length]]

\* `return ax.<method>(...)`: a tool returns (or lets propagate) what the
\* client method returned (or raised)
tool_return(clientOutcome) == clientOutcome

(***************************************************************************)
(* API client (services/axcelerate.py): construction.  os.getenv gives     *)
(* None for a variable that is not set, and __init__ checks nothing.       *)
(***************************************************************************)
\* the environments the server can be started in
EnvVals ==
  [AXCELERATE_BASE_URL : {JNull, JStr("https://ax.test/api")},
   AXCELERATE_WSTOKEN : {JNull, JStr("ws")},
   AXCELERATE_APITOKEN : {JNull, JStr("api")}]

\* an environment with the three variables set
FullEnv ==
  [AXCELERATE_BASE_URL |-> JStr("https://ax.test/api"),
   AXCELERATE_WSTOKEN |-> JStr("ws"), AXCELERATE_APITOKEN |-> JStr("api")]

Axcelerate_init(env) ==
  Return([base_url |-> env.AXCELERATE_BASE_URL,
          headers |-> [wstoken |-> env.AXCELERATE_WSTOKEN,
                       apitoken |-> env.AXCELERATE_APITOKEN]])

(***************************************************************************)
(* API client (services/axcelerate.py): the outgoing request of each       *)
(* method.  params is the dict the method hands to requests.               *)
(***************************************************************************)
Digit(n) ==
  CASE n = 0 -> "0" [] n = 1 -> "1" [] n = 2 -> "2" [] n = 3 -> "3"
    [] n = 4 -> "4" [] n = 5 -> "5" [] n = 6 -> "6" [] n = 7 -> "7"
    [] n = 8 -> "8" [] n = 9 -> "9"
Pad2(n) == Digit(n \div 10) \o Digit(n % 10)
Pad4(n) == Pad2(n \div 100) \o Pad2(n % 100)

\* date.isoformat() is YYYY-MM-DD; datetime.isoformat() of a value with no
\* seconds and no microseconds is YYYY-MM-DDTHH:MM:00
IsoFormat(x) ==
  LET ymd == Pad4(x.v[1]) \o "-" \o Pad2(x.v[2]) \o "-" \o Pad2(x.v[3])
  IN IF x.t = "date" THEN JStr(ymd)
     ELSE JStr(ymd \o "T" \o Pad2(x.v[4]) \o ":" \o Pad2(x.v[5]) \o ":00")

\* the truth value of x in `... if x else None`: a date or datetime is always true
Truthy(x) ==
  CASE x.t = "null" -> FALSE
    [] x.t = "bool" -> x.v
    [] x.t = "int" -> x.v # 0
    [] x.t = "str" -> x.v # ""
    [] x.t = "list" -> x.v # <<>>
    [] OTHER -> TRUE

\* faulty variant: a filter that is not given is sent as an empty string
IsoOrNone_EmptyWhenOmitted(x) == IF Truthy(x) THEN IsoFormat(x) ELSE JStr("")

IsoOrNone(x) == IF Truthy(x) THEN IsoFormat(x) ELSE JNull

\* requests.get/post(url, params=params): a parameter whose value is None is
\* left out of the query string, every other one is sent
QueryString(params) ==
  [k \in {p \in DOMAIN params : params[p] # JNull} |-> params[k]]

search_users_params(args) ==
  [q |-> args.q, givenName |-> args.givenName, surname |-> args.surname,
   emailAddress |-> args.emailAddress, contactRoleID |-> args.contactRoleID,
   contactIDs |-> args.contactIDs, contactID |-> args.contactID]

\* faulty variant: the training area is taken from the caller's search term
get_courses_params_CallerArea(args) ==
  [id |-> args.id, searchTerm |-> args.search_term, type |-> args.type,
   trainingArea |-> args.search_term, offset |-> args.offset,
   displayLength |-> args.display_length, sortColumn |-> args.sort_column,
   sortDirection |-> args.sort_direction, current |-> args.current,
   public |-> args.public, isActive |-> args.isActive]

get_courses_params(args) ==
  [id |-> args.id, searchTerm |-> args.search_term, type |-> args.type,
   trainingArea |-> JStr("FIA Courses"), offset |-> args.offset,
   displayLength |-> args.display_length, sortColumn |-> args.sort_column,
   sortDirection |-> args.sort_direction, current |-> args.current,
   public |-> args.public, isActive |-> args.isActive]

get_course_instance_params(args) ==
  [ID |-> args.course_id, type |-> args.type]

get_recorded_webinars_params(args) ==
  [trainingArea |-> JStr("FIA Microlearning"), displayLength |-> JInt(100)]

search_courses_params(args) ==
  [id |-> args.id, instanceID |-> args.instance_id, type |-> args.type,
   trainingCategory |-> args.training_category, location |-> args.location,
   state |-> args.state, code |-> args.code, name |-> args.name,
   searchTerm |-> args.search_term, enrolmentOpen |-> args.enrolment_open,
   startDate_min |-> IsoOrNone(args.startDate_min),
   startDate_max |-> IsoOrNone(args.startDate_max),
   finishDate_min |-> IsoOrNone(args.finishDate_min),
   finishDate_max |-> IsoOrNone(args.finishDate_max),
   lastUpdated_min |-> IsoOrNone(args.lastUpdated_min),
   lastUpdated_max |-> IsoOrNone(args.lastUpdated_max),
   offset |-> args.offset, displayLength |-> args.display_length,
   sortColumn |-> args.sort_column, sortDirection |-> args.sort_direction,
   public |-> args.public, isActive |-> args.isActive, status |-> args.status]

get_student_enrollments_params(args) == [contactID |-> args.contactID]

get_course_enrolments_params(args) == [instanceID |-> args.instanceID]

\* requests leaves a header whose value is None out of the request
SentHeaders(headers) ==
  [k \in {h \in DOMAIN headers : headers[h] # JNull} |-> headers[k]]

\* what requests makes of url = f"{self.base_url}<path>", headers and params:
\* with no base URL the url is "None<path>", which has no scheme, and requests
\* raises MissingSchema before anything is sent
Prepare(client, req) ==
  IF client.base_url = JNull THEN Raise("MissingSchema")
  ELSE Return([verb |-> req.verb, url |-> client.base_url.v \o req.path,
               headers |-> SentHeaders(client.headers),
               query |-> QueryString(req.params)])

\* faulty variant: the request is issued a second time
HttpCall_Twice(n) == n + 2

\* one call of requests.get/post
HttpCall(n) == n + 1

\* the request a client method issues: verb, path under base_url, params
ClientRequest(method, args) ==
  CASE method = "search_users" ->
         [verb |-> "GET", path |-> "/contacts/search/", params |-> search_users_params(args)]
    [] method = "get_courses" ->
         [verb |-> "GET", path |-> "/courses/", params |-> get_courses_params(args)]
    [] method = "get_course_instance" ->
         [verb |-> "GET", path |-> "/course/instances", params |-> get_course_instance_params(args)]
    [] method = "get_recorded_webinars" ->
         [verb |-> "GET", path |-> "/courses/", params |-> get_recorded_webinars_params(args)]
    [] method = "search_courses" ->
         [verb |-> "POST", path |-> "/course/instance/search/", params |-> search_courses_params(args)]
    [] method = "get_fia_courses" ->
         [verb |-> "POST", path |-> "/course/instance/search/",
          params |-> search_courses_params(get_fia_courses_call(args).args)]
    [] method = "get_student_enrollments" ->
         [verb |-> "GET", path |-> "/course/enrolments/", params |-> get_student_enrollments_params(args)]
    [] method = "get_course_enrolments" ->
         [verb |-> "GET", path |-> "/course/enrolments/", params |-> get_course_enrolments_params(args)]

(***************************************************************************)
(* What the upstream can answer.  requests is called without a timeout, so *)
(* a call ends with a connection error or with a response; the status is   *)
(* the final one (requests follows redirects itself).  A body that is not  *)
(* JSON makes response.json() raise the decode error of the installed      *)
(* library: requests.JSONDecodeError (a RequestException) from requests    *)
(* 2.27 on, json.JSONDecodeError (a ValueError only) before.               *)
(***************************************************************************)
Outcome(net, status, body, jsonError) ==
  [net |-> net, status |-> status, body |-> body, jsonError |-> jsonError]

IdFieldVals ==
  {JInt(i) : i \in Ids} \cup {JStr("1"), JFloat(15), JNull, JStr("NA"), JList(<<>>)}

\* the keys of an upstream row that the model varies, with their values
RowKeys(method) ==
  CASE method = "search_users" ->
         [CONTACTID |-> {JInt(1), JNull}, SURNAME |-> {JStr("Garbo")}]
    [] method \in {"get_courses", "get_recorded_webinars"} ->
         [ID |-> {JInt(1)}, NAME |-> {JStr("Garbo")}]
    [] method \in {"get_course_instance", "search_courses", "get_fia_courses"} ->
         [NAME |-> {JStr("Garbo")}]
    [] method = "get_student_enrollments" ->
         [CONTACTID |-> IdFieldVals, NAME |-> {JStr("Garbo")}]
    [] method = "get_course_enrolments" ->
         [INSTANCEID |-> IdFieldVals, SURNAME |-> {JStr("Garbo")}]

DictsOver(keyVals) ==
  LET all == UNION {keyVals[k] : k \in DOMAIN keyVals}
  IN { d \in UNION {[S -> all] : S \in SUBSET DOMAIN keyVals} :
         \A k \in DOMAIN d : d[k] \in keyVals[k] }

NonRecordItems == {JNull, JStr("NA")}

Items(method) == {JDict(d) : d \in DictsOver(RowKeys(method))} \cup NonRecordItems

Lists(S, n) == UNION {[1..k -> S] : k \in 0..n}

Wrapped(L) == JDict([data |-> JList(L)])

\* top-level values that are neither a list nor an object carrying a "data" list
MalformedBodies ==
  {JInt(5), JStr(""), JStr("NA"), JNull, JDict(EmptyDict),
   JDict([error |-> JStr("NA")]),
   JDict([data |-> JNull]), JDict([data |-> JInt(5)]),
   JDict([data |-> JStr("NA")]), JDict([data |-> JDict(EmptyDict)])}

Bodies(method) ==
  {JList(L) : L \in Lists(Items(method), MaxRows)}
    \cup {Wrapped(L) : L \in Lists(Items(method), MaxRows)}
    \cup MalformedBodies

Outcomes(method) ==
  {Outcome("ConnectionError", 0, JNull, "")}
    \cup {Outcome("ok", st, JNull, "") : st \in {404, 500}}
    \cup {Outcome("ok", 200, b, "") : b \in Bodies(method)}
    \cup {Outcome("ok", 200, NotJson, e) :
            e \in {"requests.JSONDecodeError", "json.JSONDecodeError"}}

(***************************************************************************)
(* API client: what a method does once requests comes back.                *)
(***************************************************************************)
\* faulty variant: the clause names requests.ConnectionError only
IsRequestException_ConnectionOnly(exc) == exc \in {"ConnectionError"}

\* `except requests.RequestException`: the classes the clause catches
IsRequestException(exc) ==
  exc \in {"ConnectionError", "Timeout", "HTTPError", "requests.JSONDecodeError",
           "MissingSchema"}

\* faulty variant: the webinar listing catches what its siblings catch
IsException_RequestsOnly(exc) == IsRequestException(exc)

\* `except Exception`: every exception the model raises
IsException(exc) ==
  exc \in {"ConnectionError", "Timeout", "HTTPError", "requests.JSONDecodeError",
           "MissingSchema", "json.JSONDecodeError", "TypeError", "ValueError", "AttributeError"}

\* requests.get/post, response.raise_for_status(), response.json()
Fetch(o) ==
  IF o.net # "ok" THEN Raise(o.net)
  ELSE IF o.status >= 400 THEN Raise("HTTPError")
  ELSE IF o.body = NotJson THEN Raise(o.jsonError)
  ELSE Return(o.body)

\* one pass of a loop body: append a row, continue, or raise
Emit(row) == [kind |-> "emit", exc |-> "", row |-> row]
Skip == [kind |-> "skip", exc |-> "", row |-> JNull]
Fail(e) == [kind |-> "raise", exc |-> e, row |-> JNull]

\* the list a loop has built from the passes of its body, in order: the
\* first pass that raises ends the loop with its exception
RECURSIVE Collect(_, _, _)
Collect(steps, i, acc) ==
  IF i > Len(steps) THEN Return(JList(acc))
  ELSE CASE steps[i].kind = "raise" -> Raise(steps[i].exc)
         [] steps[i].kind = "skip" -> Collect(steps, i + 1, acc)
         [] OTHER -> Collect(steps, i + 1, Append(acc, steps[i].row))

\* `try: <tried> except <clause>: return <default>`; caught says whether the
\* clause matches the exception raised
TryExcept(tried, caught, default) ==
  IF tried.kind = "raise" /\ caught THEN Return(default) ELSE tried

EmptyList == JList(<<>>)

\* faulty variant: surname is read from the given name
ContactRecord_SurnameFromGiven(user) ==
  JDict([contact_id |-> Get(user, "CONTACTID"), user_id |-> Get(user, "USERID"),
         given_name |-> Get(user, "GIVENNAME"), surname |-> Get(user, "GIVENNAME"),
         email |-> Get(user, "EMAILADDRESS"),
         alt_email |-> Get(user, "EMAILADDRESSALTERNATIVE"),
         sex |-> Get(user, "SEX"), mobile |-> Get(user, "MOBILEPHONE"),
         work_phone |-> Get(user, "WORKPHONE"),
         organisation |-> Get(user, "ORGANISATION"),
         position |-> Get(user, "POSITION"), active |-> Get(user, "CONTACTACTIVE")])

\* axcelerate.py 65-78: the normalized Contact of a raw contact object
ContactRecord(user) ==
  JDict([contact_id |-> Get(user, "CONTACTID"), user_id |-> Get(user, "USERID"),
         given_name |-> Get(user, "GIVENNAME"), surname |-> Get(user, "SURNAME"),
         email |-> Get(user, "EMAILADDRESS"),
         alt_email |-> Get(user, "EMAILADDRESSALTERNATIVE"),
         sex |-> Get(user, "SEX"), mobile |-> Get(user, "MOBILEPHONE"),
         work_phone |-> Get(user, "WORKPHONE"),
         organisation |-> Get(user, "ORGANISATION"),
         position |-> Get(user, "POSITION"), active |-> Get(user, "CONTACTACTIVE")])

\* axcelerate.py 139-153 and 200-214: the Course of a raw course object
CourseRecord(course) ==
  JDict([ID |-> Get(course, "ID"), NAME |-> Get(course, "NAME"),
         STREAMNAME |-> Get(course, "STREAMNAME"),
         DIPLOMAVERSION |-> Get(course, "DIPLOMAVERSION"),
         CODE |-> Get(course, "CODE"), GST_TYPE |-> Get(course, "GST_TYPE"),
         COST |-> Get(course, "COST"), DELIVERY |-> Get(course, "DELIVERY"),
         DURATION |-> Get(course, "DURATION"),
         DURATIONTYPE |-> Get(course, "DURATIONTYPE"),
         ISACTIVE |-> Get(course, "ISACTIVE"), TYPE |-> Get(course, "TYPE"),
         SHORTDESCRIPTION |-> Get(course, "SHORTDESCRIPTION")])

\* axcelerate.py 368-380: the learner view of an enrolment
LearnerEnrolment(e) ==
  JDict([instance_id |-> Get(e, "INSTANCEID"), enrol_id |-> Get(e, "ENROLID"),
         learner_id |-> Get(e, "LEARNERID"), contact_id |-> Get(e, "CONTACTID"),
         name |-> Get(e, "NAME"), code |-> Get(e, "CODE"),
         status |-> Get(e, "STATUS"), type |-> Get(e, "TYPE"),
         enrolment_date |-> Get(e, "ENROLMENTDATE"),
         start_date |-> Get(e, "STARTDATE"), finish_date |-> Get(e, "FINISHDATE")])

\* axcelerate.py 424-436: the roster view of an enrolment
RosterEnrolment(e) ==
  JDict([contact_id |-> Get(e, "CONTACTID"), given_name |-> Get(e, "GIVENNAME"),
         surname |-> Get(e, "SURNAME"), email |-> Get(e, "EMAIL"),
         status |-> Get(e, "STATUS"), enrolment_date |-> Get(e, "ENROLMENTDATE"),
         finish_date |-> Get(e, "FINISHDATE"), instance_id |-> Get(e, "INSTANCEID"),
         code |-> Get(e, "CODE"), enrol_id |-> Get(e, "ENROLID"),
         learner_id |-> Get(e, "LEARNERID")])

\* `<item>.get(...)` on a value that is no dict
NoGet == Fail("AttributeError")

search_users_body(user) ==
  IF ~IsDict(user) THEN Skip ELSE Emit(ContactRecord(user.v))

search_users_loop(users) ==
  LET it == PyIter(users)
  IN IF it.kind = "raise" THEN it
     ELSE Collect([i \in 1..Len(it.value) |-> search_users_body(it.value[i])], 1, <<>>)

search_users(args, o) ==
  LET users == Fetch(o)
      tried == IF users.kind = "raise" THEN users ELSE search_users_loop(users.value)
  IN TryExcept(tried, IsRequestException(tried.exc), EmptyList)

get_courses_body(course) ==
  IF ~IsDict(course) THEN NoGet ELSE Emit(CourseRecord(course.v))

get_courses_loop(courses) ==
  LET it == PyIter(courses)
  IN IF it.kind = "raise" THEN it
     ELSE Collect([i \in 1..Len(it.value) |-> get_courses_body(it.value[i])], 1, <<>>)

get_courses(args, o) ==
  LET courses == Fetch(o)
      tried == IF courses.kind = "raise" THEN courses
               ELSE get_courses_loop(courses.value)
  IN TryExcept(tried, IsRequestException(tried.exc), EmptyList)

get_course_instance(args, o) ==
  LET tried == Fetch(o)
  IN TryExcept(tried, IsRequestException(tried.exc), EmptyList)

\* axcelerate.py 218: the in-band error marker
ErrorMarker(exc) ==
  JList(<<JDict([error |-> JBool(TRUE),
                 message |-> JStr("Unexpected error: " \o exc)])>>)

\* axcelerate.py 199-214: the same loop as get_courses, over webinars
get_recorded_webinars(args, o) ==
  LET webinars == Fetch(o)
      tried == IF webinars.kind = "raise" THEN webinars
               ELSE get_courses_loop(webinars.value)
  IN IF tried.kind = "raise" /\ IsException(tried.exc)
     THEN Return(ErrorMarker(tried.exc)) ELSE tried

\* axcelerate.py 307-312
search_courses_shape(data) ==
  IF IsDict(data) THEN GetDefault(data.v, "data", EmptyList)
  ELSE IF IsList(data) THEN data
  ELSE EmptyList

search_courses(args, o) ==
  LET data == Fetch(o)
      tried == IF data.kind = "raise" THEN data
               ELSE Return(search_courses_shape(data.value))
  IN TryExcept(tried, IsRequestException(tried.exc), EmptyList)

get_fia_courses(args, o) == search_courses(get_fia_courses_call(args).args, o)

\* faulty variant: the "data" wrapper is not unwrapped
enrolments_of_ListOnly(payload) ==
  IF IsList(payload) THEN payload ELSE EmptyList

\* axcelerate.py 356-361 and 412-417
enrolments_of(payload) ==
  IF IsList(payload) THEN payload
  ELSE IF IsDict(payload) THEN GetDefault(payload.v, "data", EmptyList)
  ELSE EmptyList

\* axcelerate.py 366-380: int(e.get("CONTACTID", -1)) != contactID
student_body(e, contactID) ==
  IF ~IsDict(e) THEN NoGet
  ELSE LET n == PyInt(GetDefault(e.v, "CONTACTID", JInt(-1)))
       IN IF n.kind = "raise" THEN Fail(n.exc)
          ELSE IF n.value # contactID THEN Skip
          ELSE Emit(LearnerEnrolment(e.v))

student_loop(enrolments, contactID) ==
  LET it == PyIter(enrolments)
  IN IF it.kind = "raise" THEN it
     ELSE Collect([i \in 1..Len(it.value) |-> student_body(it.value[i], contactID)],
                  1, <<>>)

StudentResult(enrolled, courses) ==
  JDict([enrolled |-> JBool(enrolled), courses |-> courses])

\* faulty variant: any answer the loop gets through counts as enrolled
get_student_enrollments_AnyAnswer(args, o) ==
  LET payload == Fetch(o)
      courses == student_loop(enrolments_of(payload.value), args.contactID.v)
      tried == IF payload.kind = "raise" THEN payload
               ELSE IF courses.kind = "raise" THEN courses
               ELSE Return(StudentResult(TRUE, courses.value))
  IN TryExcept(tried, IsRequestException(tried.exc), StudentResult(FALSE, EmptyList))

get_student_enrollments(args, o) ==
  LET payload == Fetch(o)
      courses == student_loop(enrolments_of(payload.value), args.contactID.v)
      tried == IF payload.kind = "raise" THEN payload
               ELSE IF courses.kind = "raise" THEN courses
               ELSE Return(StudentResult(Len(courses.value.v) > 0, courses.value))
  IN TryExcept(tried, IsRequestException(tried.exc), StudentResult(FALSE, EmptyList))

\* axcelerate.py 422-436: int(e.get("INSTANCEID", -1)) != instanceID
roster_body(e, instanceID) ==
  IF ~IsDict(e) THEN NoGet
  ELSE LET n == PyInt(GetDefault(e.v, "INSTANCEID", JInt(-1)))
       IN IF n.kind = "raise" THEN Fail(n.exc)
          ELSE IF n.value # instanceID THEN Skip
          ELSE Emit(RosterEnrolment(e.v))

roster_loop(enrolments, instanceID) ==
  LET it == PyIter(enrolments)
  IN IF it.kind = "raise" THEN it
     ELSE Collect([i \in 1..Len(it.value) |-> roster_body(it.value[i], instanceID)],
                  1, <<>>)

get_course_enrolments(args, o) ==
  LET payload == Fetch(o)
      tried == IF payload.kind = "raise" THEN payload
               ELSE roster_loop(enrolments_of(payload.value), args.instanceID.v)
  IN TryExcept(tried, IsRequestException(tried.exc), EmptyList)

\* the client method a call names, run on the upstream's answer
ClientRun(method, args, o) ==
  CASE method = "search_users" -> search_users(args, o)
    [] method = "get_courses" -> get_courses(args, o)
    [] method = "get_course_instance" -> get_course_instance(args, o)
    [] method = "get_recorded_webinars" -> get_recorded_webinars(args, o)
    [] method = "search_courses" -> search_courses(args, o)
    [] method = "get_fia_courses" -> get_fia_courses(args, o)
    [] method = "get_student_enrollments" -> get_student_enrollments(args, o)
    [] method = "get_course_enrolments" -> get_course_enrolments(args, o)

(***************************************************************************)
(* The state machine.                                                      *)
(***************************************************************************)
Init ==
  /\ pc = "idle"
  /\ tool = ""
  /\ toolArgs = EmptyDict
  /\ call = [method |-> "", args |-> EmptyDict]
  /\ request = [verb |-> "", path |-> "", params |-> EmptyDict]
  /\ response = Outcome("", 0, JNull, "")
  /\ result = Return(JNull)
  /\ httpCalls = 0
  /\ ax = Axcelerate_init(FullEnv).value

\* A tool is invoked: it calls its client method, which builds its params and
\* issues its request.
search_user ==
  /\ pc = "idle"
  /\ \E a \in SearchUserArgs :
       /\ toolArgs' = a
       /\ call' = search_user_call(a)
       /\ request' = ClientRequest(search_user_call(a).method, search_user_call(a).args)
  /\ tool' = "search_user"
  /\ pc' = "waiting"
  /\ httpCalls' = HttpCall(httpCalls)
  /\ UNCHANGED <<ax, response, result>>

get_courses_tool ==
  /\ pc = "idle"
  /\ \E a \in GetCoursesArgs :
       /\ toolArgs' = a
       /\ call' = get_courses_call(a)
       /\ request' = ClientRequest(get_courses_call(a).method, get_courses_call(a).args)
  /\ tool' = "get_courses"
  /\ pc' = "waiting"
  /\ httpCalls' = HttpCall(httpCalls)
  /\ UNCHANGED <<ax, response, result>>

get_cohorts ==
  /\ pc = "idle"
  /\ \E a \in GetCohortsArgs :
       /\ toolArgs' = a
       /\ call' = get_cohorts_call(a)
       /\ request' = ClientRequest(get_cohorts_call(a).method, get_cohorts_call(a).args)
  /\ tool' = "get_cohorts"
  /\ pc' = "waiting"
  /\ httpCalls' = HttpCall(httpCalls)
  /\ UNCHANGED <<ax, response, result>>

get_recorded_webinars_tool ==
  /\ pc = "idle"
  /\ \E a \in {NoArgs} :
       /\ toolArgs' = a
       /\ call' = get_recorded_webinars_call(a)
       /\ request' = ClientRequest(get_recorded_webinars_call(a).method, get_recorded_webinars_call(a).args)
  /\ tool' = "get_recorded_webinars"
  /\ pc' = "waiting"
  /\ httpCalls' = HttpCall(httpCalls)
  /\ UNCHANGED <<ax, response, result>>

search_cohorts ==
  /\ pc = "idle"
  /\ \E a \in SearchCohortsArgs :
       /\ toolArgs' = a
       /\ call' = search_cohorts_call(a)
       /\ request' = ClientRequest(search_cohorts_call(a).method, search_cohorts_call(a).args)
  /\ tool' = "search_cohorts"
  /\ pc' = "waiting"
  /\ httpCalls' = HttpCall(httpCalls)
  /\ UNCHANGED <<ax, response, result>>

get_student_enrollments_tool ==
  /\ pc = "idle"
  /\ \E a \in StudentArgs :
       /\ toolArgs' = a
       /\ call' = get_student_enrollments_call(a)
       /\ request' = ClientRequest(get_student_enrollments_call(a).method, get_student_enrollments_call(a).args)
  /\ tool' = "get_student_enrollments"
  /\ pc' = "waiting"
  /\ httpCalls' = HttpCall(httpCalls)
  /\ UNCHANGED <<ax, response, result>>

get_course_enrolments_tool ==
  /\ pc = "idle"
  /\ \E a \in CourseEnrolmentArgs :
       /\ toolArgs' = a
       /\ call' = get_course_enrolments_call(a)
       /\ request' = ClientRequest(get_course_enrolments_call(a).method, get_course_enrolments_call(a).args)
  /\ tool' = "get_course_enrolments"
  /\ pc' = "waiting"
  /\ httpCalls' = HttpCall(httpCalls)
  /\ UNCHANGED <<ax, response, result>>

\* get_fia_courses is no tool: it is called on the client directly
get_fia_courses_direct ==
  /\ pc = "idle"
  /\ \E a \in FiaArgs :
       /\ toolArgs' = a
       /\ call' = [method |-> "get_fia_courses", args |-> a]
       /\ request' = ClientRequest("get_fia_courses", a)
  /\ tool' = ""
  /\ pc' = "waiting"
  /\ httpCalls' = HttpCall(httpCalls)
  /\ UNCHANGED <<ax, response, result>>

\* requests comes back; the client method runs to its end and the tool returns
HttpComplete ==
  /\ pc = "waiting"
  /\ response.net = ""
  /\ \E o \in Outcomes(call.method) :
       /\ response' = o
       /\ result' = tool_return(ClientRun(call.method, call.args, o))
  /\ pc' = "done"
  /\ UNCHANGED <<ax, tool, toolArgs, call, request, httpCalls>>

\* the upstream takes the request and never answers.  requests.get/post is
\* called without timeout=, so the call waits for as long as the upstream is
\* silent: no step of the client ends the wait.
UpstreamSilent ==
  /\ pc = "waiting"
  /\ response.net = ""
  /\ response' = Outcome("silent", 0, JNull, "")
  /\ UNCHANGED <<ax, pc, tool, toolArgs, call, request, httpCalls, result>>

\* the caller has the result; the server is ready for the next invocation
Finish ==
  /\ pc = "done"
  /\ pc' = "idle"
  /\ tool' = ""
  /\ toolArgs' = EmptyDict
  /\ call' = [method |-> "", args |-> EmptyDict]
  /\ request' = [verb |-> "", path |-> "", params |-> EmptyDict]
  /\ response' = Outcome("", 0, JNull, "")
  /\ result' = Return(JNull)
  /\ httpCalls' = 0
  /\ UNCHANGED ax

Next ==
  \/ search_user
  \/ get_courses_tool
  \/ get_cohorts
  \/ get_recorded_webinars_tool
  \/ search_cohorts
  \/ get_student_enrollments_tool
  \/ get_course_enrolments_tool
  \/ get_fia_courses_direct
  \/ HttpComplete
  \/ UpstreamSilent
  \/ Finish

Spec == Init /\ [][Next]_vars

\* the server does not halt while a step is possible: once requests has
\* something to come back with, the client method and the tool run on
FairSpec == Spec /\ WF_vars(Next)

(***************************************************************************)
(* The server in any environment and with several invocations in progress: *)
(* every variable but ax holds one value per invocation, the locals of its *)
(* frame; ax is the one client all invocations use.  The tools and the     *)
(* upstream answers are a part of those of Spec.                           *)
(***************************************************************************)
Threads == 1..MaxThreads

ServerCalls ==
  {[tool |-> "get_student_enrollments", args |-> a,
    call |-> get_student_enrollments_call(a)] : a \in StudentArgs}
    \cup {[tool |-> "get_course_enrolments", args |-> a,
           call |-> get_course_enrolments_call(a)] : a \in CourseEnrolmentArgs}

ServerRows(method) ==
  IF method = "get_student_enrollments"
  THEN {JDict(d) : d \in DictsOver([CONTACTID |-> {JInt(i) : i \in Ids}])}
  ELSE {JDict(d) : d \in DictsOver([INSTANCEID |-> {JInt(i) : i \in Ids}])}

ServerOutcomes(client, c) ==
  IF Prepare(client, ClientRequest(c.method, c.args)).kind = "raise"
  THEN {Outcome(Prepare(client, ClientRequest(c.method, c.args)).exc, 0, JNull, "")}
  ELSE {Outcome("ConnectionError", 0, JNull, ""), Outcome("ok", 500, JNull, ""),
        Outcome("ok", 200, EmptyList, "")}
         \cup {Outcome("ok", 200, JList(<<row>>), "") : row \in ServerRows(c.method)}

\* faulty variant: the value is kept where every invocation sees it
Local_OnClient(f, t, val) == [u \in DOMAIN f |-> val]

\* a local variable of invocation t is set
Local(f, t, val) == [f EXCEPT ![t] = val]

ServerInit ==
  /\ \E env \in EnvVals :
       /\ Axcelerate_init(env).kind = "return"
       /\ ax = Axcelerate_init(env).value
  /\ pc = [t \in Threads |-> "idle"]
  /\ tool = [t \in Threads |-> ""]
  /\ toolArgs = [t \in Threads |-> EmptyDict]
  /\ call = [t \in Threads |-> [method |-> "", args |-> EmptyDict]]
  /\ request = [t \in Threads |-> [verb |-> "", path |-> "", params |-> EmptyDict]]
  /\ response = [t \in Threads |-> Outcome("", 0, JNull, "")]
  /\ result = [t \in Threads |-> Return(JNull)]
  /\ httpCalls = [t \in Threads |-> 0]

ThreadCall(t) ==
  /\ pc[t] = "idle"
  /\ \E c \in ServerCalls :
       /\ tool' = Local(tool, t, c.tool)
       /\ toolArgs' = Local(toolArgs, t, c.args)
       /\ call' = Local(call, t, c.call)
       /\ request' = Local(request, t, ClientRequest(c.call.method, c.call.args))
  /\ pc' = Local(pc, t, "waiting")
  /\ httpCalls' = Local(httpCalls, t, HttpCall(httpCalls[t]))
  /\ UNCHANGED <<ax, response, result>>

ThreadHttpComplete(t) ==
  /\ pc[t] = "waiting"
  /\ \E o \in ServerOutcomes(ax, call[t]) :
       /\ response' = Local(response, t, o)
       /\ result' = Local(result, t,
                          tool_return(ClientRun(call[t].method, call[t].args, o)))
  /\ pc' = Local(pc, t, "done")
  /\ UNCHANGED <<ax, tool, toolArgs, call, request, httpCalls>>

ThreadFinish(t) ==
  /\ pc[t] = "done"
  /\ pc' = Local(pc, t, "idle")
  /\ tool' = Local(tool, t, "")
  /\ toolArgs' = Local(toolArgs, t, EmptyDict)
  /\ call' = Local(call, t, [method |-> "", args |-> EmptyDict])
  /\ request' = Local(request, t, [verb |-> "", path |-> "", params |-> EmptyDict])
  /\ response' = Local(response, t, Outcome("", 0, JNull, ""))
  /\ result' = Local(result, t, Return(JNull))
  /\ httpCalls' = Local(httpCalls, t, 0)
  /\ UNCHANGED ax

ServerNext ==
  \E t \in Threads :
    \/ ThreadCall(t)
    \/ ThreadHttpComplete(t)
    \/ ThreadFinish(t)

ServerSpec == ServerInit /\ [][ServerNext]_vars

(***************************************************************************)
(* Properties.                                                             *)
(***************************************************************************)
Done == pc = "done"
Succeeded == response.net = "ok" /\ response.status \in 200..299
GotJson == Succeeded /\ response.body # NotJson

\* the documented empty/default result of a client method
DefaultOf(method) ==
  IF method = "get_student_enrollments" THEN StudentResult(FALSE, EmptyList)
  ELSE EmptyList

\* the client method each tool stands for (spec 4.2)
MethodOf(name) ==
  CASE name = "search_user" -> "search_users"
    [] name = "get_courses" -> "get_courses"
    [] name = "get_cohorts" -> "get_course_instance"
    [] name = "get_recorded_webinars" -> "get_recorded_webinars"
    [] name = "search_cohorts" -> "search_courses"
    [] name = "get_student_enrollments" -> "get_student_enrollments"
    [] name = "get_course_enrolments" -> "get_course_enrolments"

HasDataList(b) == IsDict(b) /\ "data" \in DOMAIN b.v /\ IsList(b.v["data"])
WellShaped(b) == IsList(b) \/ HasDataList(b)
\* the rows of a well-shaped body
RowsOf(b) == IF IsList(b) THEN b.v ELSE b.v["data"].v

\* the rows of a returned result
ResultRows ==
  IF call.method = "get_student_enrollments"
  THEN result.value.v["courses"].v ELSE result.value.v

\* v is X once coerced to an integer
CoercesTo(val, X) == PyInt(val).kind = "return" /\ PyInt(val).value = X

C2_MalformedGivesDefault ==
  (Done /\ call.method # "get_recorded_webinars" /\ GotJson
        /\ ~WellShaped(response.body))
    => result = Return(DefaultOf(call.method))

\* C3: in every mapping operation, for every response list, items that are
\* not records are skipped and records are emitted with null for absent keys;
\* the operation neither raises nor aborts and the well-formed items are
\* still returned.
C3_NonRecordsSkipped ==
  (Done /\ GotJson /\ IsList(response.body)
        /\ call.method \in {"search_users", "get_courses", "get_recorded_webinars",
                            "get_student_enrollments", "get_course_enrolments"})
    => LET records == SelectSeq(response.body.v, IsDict)
       IN /\ result.kind = "return"
          /\ call.method = "search_users" =>
               result.value = JList([i \in 1..Len(records) |-> ContactRecord(records[i].v)])
          /\ call.method \in {"get_courses", "get_recorded_webinars"} =>
               result.value = JList([i \in 1..Len(records) |-> CourseRecord(records[i].v)])
          /\ call.method = "get_student_enrollments" =>
               Len(ResultRows) >=
                 Len(SelectSeq(records,
                   LAMBDA r : Get(r.v, "CONTACTID") = call.args.contactID))
          /\ call.method = "get_course_enrolments" =>
               Len(ResultRows) >=
                 Len(SelectSeq(records,
                   LAMBDA r : Get(r.v, "INSTANCEID") = call.args.instanceID))

\* C4: every row of the courses that get_student_enrollments(X) returns has a
\* contact_id equal to X (as the filter reads it: once coerced to an integer),
\* and when no upstream row has a contact id matching X the result is
\* enrolled = false with no courses.
C4_StudentRowsMatch ==
  (Done /\ call.method = "get_student_enrollments" /\ result.kind = "return")
    => LET X == call.args.contactID.v
           upstream == IF GotJson /\ WellShaped(response.body)
                       THEN RowsOf(response.body) ELSE <<>>
           matching == SelectSeq(upstream,
                         LAMBDA r : IsDict(r) /\ "CONTACTID" \in DOMAIN r.v
                                      /\ CoercesTo(r.v["CONTACTID"], X))
       IN /\ \A i \in 1..Len(ResultRows) :
               CoercesTo(ResultRows[i].v["contact_id"], X)
          /\ matching = <<>> =>
               result.value = StudentResult(FALSE, EmptyList)

\* C5: every row that get_course_enrolments(Y) returns has an instance_id
\* equal to Y (once coerced to an integer); rows of other instances and rows
\* with no instance id are never returned.
C5_RosterRowsMatch ==
  (Done /\ call.method = "get_course_enrolments" /\ result.kind = "return")
    => \A i \in 1..Len(ResultRows) :
         CoercesTo(ResultRows[i].v["instance_id"], call.args.instanceID.v)

\* C6: in both enrolment operations a row whose id field cannot be coerced to
\* an integer is dropped as non-matching; the operation does not raise and the
\* other rows are still filtered and returned.
C6_UncoercibleIdDropped ==
  (Done /\ call.method \in {"get_student_enrollments", "get_course_enrolments"}
        /\ GotJson /\ WellShaped(response.body)
        /\ \A i \in 1..Len(RowsOf(response.body)) : IsDict(RowsOf(response.body)[i]))
    => LET key == IF call.method = "get_student_enrollments"
                  THEN "CONTACTID" ELSE "INSTANCEID"
           X == IF call.method = "get_student_enrollments"
                THEN call.args.contactID.v ELSE call.args.instanceID.v
       IN /\ result.kind = "return"
          /\ Len(ResultRows) =
               Len(SelectSeq(RowsOf(response.body),
                 LAMBDA r : CoercesTo(GetDefault(r.v, key, JInt(-1)), X)))

\* C7: get_recorded_webinars never raises; when anything inside it fails (the
\* transport, the status, the JSON parse, the iteration or the mapping of an
\* item) it returns exactly the one-element list holding the error marker, and
\* otherwise the mapped Course records with no marker among them.
C7_WebinarFails ==
  \/ ~GotJson
  \/ PyIter(response.body).kind = "raise"
  \/ \E i \in 1..Len(PyIter(response.body).value) :
       ~IsDict(PyIter(response.body).value[i])

C7_IsMarker(val) ==
  \E e \in {"ConnectionError", "HTTPError", "requests.JSONDecodeError",
            "json.JSONDecodeError", "TypeError", "AttributeError"} :
    val = JList(<<JDict([error |-> JBool(TRUE),
                         message |-> JStr("Unexpected error: " \o e)])>>)

C7_WebinarMarkerOrRecords ==
  (Done /\ call.method = "get_recorded_webinars")
    => /\ result.kind = "return"
       /\ IF C7_WebinarFails THEN C7_IsMarker(result.value)
          ELSE LET items == PyIter(response.body).value
               IN /\ result.value = JList([i \in 1..Len(items) |-> CourseRecord(items[i].v)])
                  /\ \A i \in 1..Len(result.value.v) :
                       "error" \notin DOMAIN result.value.v[i].v

C7_Witness ==
  /\ Done
  /\ call.method = "get_recorded_webinars"
  /\ GotJson /\ IsList(response.body) /\ Len(response.body.v) = 2
  /\ ~IsDict(response.body.v[2])
  /\ result = Return(ErrorMarker("AttributeError"))

\* C8: for search_courses and both enrolment operations, the result for an
\* upstream body {"data": L} is the result for the bare list L, the call being
\* the same.
C8_WrappedEqualsBare ==
  (Done /\ call.method \in {"search_courses", "get_student_enrollments",
                            "get_course_enrolments"}
        /\ GotJson /\ WellShaped(response.body))
    => LET L == RowsOf(response.body)
       IN /\ result = ClientRun(call.method, call.args,
                                Outcome("ok", 200, JList(L), ""))
          /\ result = ClientRun(call.method, call.args,
                                Outcome("ok", 200, Wrapped(L), ""))

C8_Witness ==
  /\ Done
  /\ call.method = "get_student_enrollments"
  /\ GotJson /\ HasDataList(response.body)
  /\ result.kind = "return"
  /\ result.value.v["enrolled"] = JBool(TRUE)

\* C9: each tool forwards every argument unchanged to its one client method
\* and returns what that method returns: the outcome of a tool call is the
\* outcome of the client method called directly with the tool's arguments.
C9_ToolIsClientMethod ==
  /\ (pc \in {"waiting", "done"} /\ tool # "") =>
       /\ call.method = MethodOf(tool)
       /\ call.args = toolArgs
       /\ request = ClientRequest(MethodOf(tool), toolArgs)
  /\ (Done /\ tool # "") => result = ClientRun(MethodOf(tool), toolArgs, response)

C9_Witness ==
  /\ Done
  /\ tool = "search_cohorts"
  /\ toolArgs.status # JNull
  /\ GotJson /\ IsList(response.body) /\ Len(response.body.v) > 0
  /\ result = Return(response.body)

C11_DateKeys ==
  {"startDate_min", "startDate_max", "finishDate_min", "finishDate_max",
   "lastUpdated_min", "lastUpdated_max"}

\* the ISO-8601 text of the dates and times a caller passes
C11_Iso(x) ==
  CASE x = PyDate(2025, 1, 31) -> JStr("2025-01-31")
    [] x = PyDateTime(2025, 1, 31, 9, 5) -> JStr("2025-01-31T09:05:00")

\* C11: in the request search_courses sends, each of the six date and time
\* filters the caller gave appears as its ISO-8601 text, and each one the
\* caller left out does not appear at all (not as null, not as "").
C11_DateFiltersIsoOrAbsent ==
  (pc \in {"waiting", "done"} /\ call.method = "search_courses")
    => \A k \in C11_DateKeys :
         IF call.args[k] = JNull
         THEN k \notin DOMAIN QueryString(request.params)
         ELSE /\ k \in DOMAIN QueryString(request.params)
              /\ QueryString(request.params)[k] = C11_Iso(call.args[k])

C11_Witness ==
  /\ pc = "waiting"
  /\ tool = "search_cohorts"
  /\ toolArgs.lastUpdated_min = PyDateTime(2025, 1, 31, 9, 5)
  /\ QueryString(request.params)["lastUpdated_min"] = JStr("2025-01-31T09:05:00")
  /\ "startDate_min" \notin DOMAIN QueryString(request.params)

\* C12: every outbound call is bounded by a request timeout, so every tool
\* invocation eventually returns, even when the upstream never answers.
C12_EveryInvocationReturns == (pc = "waiting") ~> (pc = "done")

\* C13: a tool invocation makes exactly one outbound HTTP call: one call has
\* been made, and none has come back, while it waits; it returns only once
\* that call has come back, still with one call made and no retry; nothing
\* is called outside an invocation.
C13_ExactlyOneCall ==
  /\ pc = "idle" => httpCalls = 0
  /\ pc = "waiting" => (httpCalls = 1 /\ response.net \in {"", "silent"})
  /\ pc = "done" => (httpCalls = 1 /\ response.net \notin {"", "silent"})

C13_Witness ==
  /\ Done
  /\ tool = "get_cohorts"
  /\ response.net = "ConnectionError"
  /\ httpCalls = 1
  /\ result = Return(EmptyList)

\* the arguments search_courses gets that get_fia_courses stands for
C16_Same(display_length) ==
  [id |-> JNull, instance_id |-> JNull, type |-> JStr("p"),
   training_category |-> JStr("FIA Courses"), location |-> JNull,
   state |-> JNull, code |-> JNull, name |-> JNull, search_term |-> JNull,
   enrolment_open |-> JNull, startDate_min |-> JNull, startDate_max |-> JNull,
   finishDate_min |-> JNull, finishDate_max |-> JNull,
   lastUpdated_min |-> JNull, lastUpdated_max |-> JNull, offset |-> JNull,
   display_length |-> display_length, sort_column |-> JNull,
   sort_direction |-> JNull, public |-> JNull, isActive |-> JNull,
   status |-> JNull]

\* C16: get_fia_courses(display_length) sends the request, and returns the
\* result, of search_courses called with type "p", training_category
\* "FIA Courses", the same display_length and every other filter left out.
C16_FiaIsSearchCourses ==
  /\ (pc \in {"waiting", "done"} /\ call.method = "get_fia_courses") =>
       request = ClientRequest("search_courses", C16_Same(call.args.display_length))
  /\ (Done /\ call.method = "get_fia_courses") =>
       result = ClientRun("search_courses", C16_Same(call.args.display_length), response)

C16_Witness ==
  /\ Done
  /\ call.method = "get_fia_courses"
  /\ call.args.display_length = JInt(1)
  /\ QueryString(request.params) =
       [type |-> JStr("p"), trainingCategory |-> JStr("FIA Courses"),
        displayLength |-> JInt(1)]
  /\ GotJson /\ IsList(response.body) /\ Len(response.body.v) > 0
  /\ result = Return(response.body)

C18_Keys ==
  [contact_id |-> "CONTACTID", user_id |-> "USERID", given_name |-> "GIVENNAME",
   surname |-> "SURNAME", email |-> "EMAILADDRESS",
   alt_email |-> "EMAILADDRESSALTERNATIVE", sex |-> "SEX",
   mobile |-> "MOBILEPHONE", work_phone |-> "WORKPHONE",
   organisation |-> "ORGANISATION", position |-> "POSITION",
   active |-> "CONTACTACTIVE"]

\* C18: when search_users succeeds and the upstream answers a list, the
\* result has one Contact for each object of the list, in the list's order,
\* nothing for an entry that is no object, and every Contact has the same
\* twelve keys, each holding the upstream value or null.
C18_OneContactPerObject ==
  (Done /\ call.method = "search_users" /\ GotJson /\ IsList(response.body))
    => LET objects == SelectSeq(response.body.v, LAMBDA x : IsDict(x))
       IN /\ result.kind = "return"
          /\ IsList(result.value)
          /\ Len(result.value.v) = Len(objects)
          /\ \A i \in 1..Len(objects) :
               /\ DOMAIN result.value.v[i].v = DOMAIN C18_Keys
               /\ \A k \in DOMAIN C18_Keys :
                    result.value.v[i].v[k] =
                      IF C18_Keys[k] \in DOMAIN objects[i].v
                      THEN objects[i].v[C18_Keys[k]] ELSE JNull

C18_Witness ==
  /\ Done
  /\ call.method = "search_users"
  /\ GotJson /\ IsList(response.body)
  /\ response.body.v = <<JStr("NA"), JDict([SURNAME |-> JStr("Garbo")])>>
  /\ Len(result.value.v) = 1
  /\ result.value.v[1].v["surname"] = JStr("Garbo")
  /\ result.value.v[1].v["contact_id"] = JNull

\* everything invocation t holds
C14_Frame(t) ==
  <<pc[t], tool[t], toolArgs[t], call[t], request[t], httpCalls[t],
    response[t], result[t]>>

\* C14: invocations in progress at once do not affect each other: no step
\* changes the shared client (base URL and the two headers), a step of one
\* invocation leaves every other invocation as it was, and the result an
\* invocation returns is that of its own arguments and its own answer.
C14_InvocationsIndependent ==
  [][ /\ ax' = ax
      /\ \A t \in Threads :
           C14_Frame(t)' # C14_Frame(t)
             => \A u \in Threads \ {t} : C14_Frame(u)' = C14_Frame(u)
      /\ \A t \in Threads :
           (pc[t] = "waiting" /\ pc'[t] = "done")
             => result'[t] = ClientRun(MethodOf(tool[t]), toolArgs[t], response'[t])
    ]_vars

C14_Witness ==
  /\ pc[1] = "done" /\ pc[2] = "done"
  /\ tool[1] = "get_student_enrollments" /\ tool[2] = "get_student_enrollments"
  /\ toolArgs[1] # toolArgs[2]
  /\ response[1] = response[2]
  /\ result[1].value.v["enrolled"] = JBool(TRUE)
  /\ result[2].value.v["enrolled"] = JBool(FALSE)

\* C15: a server started without the base URL or without one of the two
\* tokens reports a configuration error at startup; no request goes out
\* from a client that lacks one of them.
C15_NoRequestWithoutConfig ==
  \A t \in Threads :
    (pc[t] # "idle" /\ Prepare(ax, request[t]).kind = "return")
      => /\ ax.base_url # JNull
         /\ ax.headers.wstoken # JNull
         /\ ax.headers.apitoken # JNull
====
